---- MODULE Spec2Model ----
(***************************************************************************)
(* A model of the HDA dynamic file format of the Houdini USD bridge:       *)
(* GEO_HDAFileFormat::CanRead, ::Read,                                     *)
(* ::CanFieldChangeAffectFileFormatArguments and                           *)
(* ::ComposeFieldsForFileFormatArguments (with its helper                  *)
(* addNumericNodeParmToFormatArgs).                                        *)
(*                                                                         *)
(* A VtValue is a record [t, s, n, d]: t the held type, s the payload of a *)
(* string-like value, n the numeric payload as a tuple of integers, d the  *)
(* payload of a dictionary.  File format arguments are functions from key  *)
(* strings to value strings.                                               *)
(***************************************************************************)
EXTENDS Integers, Sequences, FiniteSets, TLC

VARIABLES
    ctx,          \* the composed metadata fields of the dynamic-format context
    inArgs,       \* *args as handed to ComposeFieldsForFileFormatArguments
    args,         \* *args after composition
    token,        \* *dependencyContextData after composition
    status,       \* "idle" before composition, "done" when it returned, "crashed"
                  \* when it did not
    writes,       \* the assignments (*args)[key] = val made, in order
    lastField,    \* field of the last processed field change
    lastDecision, \* what CanFieldChangeAffectFileFormatArguments answered for it
    prevArgs,     \* the arguments composed before that change
    dField, dOld, dNew, dToken, dResult,  \* one call of CanFieldChangeAffect...
    layerData,    \* per layer: the installed data object, or NoData
    objects,      \* every GEO_HDAFileData object created so far
    readLayer, readResult, readBefore,    \* the last call of Read
    path, canRead                         \* one call of CanRead

vars == <<ctx, inArgs, args, token, status, writes, lastField, lastDecision,
          prevArgs, dField, dOld, dNew, dToken, dResult,
          layerData, objects, readLayer, readResult, readBefore, path, canRead>>

composeVars == <<ctx, inArgs, args, token, status, writes>>
changeVars == <<lastField, lastDecision, prevArgs>>
decideVars == <<dField, dOld, dNew, dToken, dResult>>
readVars == <<layerData, objects, readLayer, readResult, readBefore>>
canReadVars == <<path, canRead>>

----------------------------------------------------------------------------
(* Bounds *)

\* longest numeric array held by a parameter
MaxArrayLen == 2
\* largest stale value a read past an empty array may produce (0..MaxGarbage)
MaxGarbage == 1
\* number of data objects Read may create
MaxObjects == 4

----------------------------------------------------------------------------
(* VtValue *)

EmptyDict == [k \in {} |-> 0]

Absent == [t |-> "absent", s |-> "", n |-> <<>>, d |-> EmptyDict]
Str(x) == [t |-> "string", s |-> x, n |-> <<>>, d |-> EmptyDict]
Tok(x) == [t |-> "TfToken", s |-> x, n |-> <<>>, d |-> EmptyDict]
Num(ty, tuple) == [t |-> ty, s |-> "", n |-> tuple, d |-> EmptyDict]
Dbl(i) == Num("double", <<i>>)
Flt(i) == Num("float", <<i>>)
Bool(b) == Num("bool", <<IF b THEN 1 ELSE 0>>)
Dict(f) == [t |-> "VtDictionary", s |-> "", n |-> <<>>, d |-> f]

IsHolding(v, ty) == v.t = ty

\* VtValue::operator!= : values of different types differ
VtNotEqual(a, b) == a # b

\* metadata field names
theParamDictToken == "HDAParms"
theOptionDictToken == "HDAOptions"
theAssetNameToken == "HDAAssetName"
theTimeCacheModeToken == "HDATimeCacheMode"
theTimeCacheStartToken == "HDATimeCacheStart"
theTimeCacheEndToken == "HDATimeCacheEnd"
theTimeCacheIntervalToken == "HDATimeCacheInterval"
theHAPISessionToken == "HDAKeepEngineOpen"

Fields == {theParamDictToken, theOptionDictToken, theAssetNameToken,
           theTimeCacheModeToken, theTimeCacheStartToken, theTimeCacheEndToken,
           theTimeCacheIntervalToken, theHAPISessionToken}

\* GEO_HAPITimeCaching
GEO_HAPI_TIME_CACHING_NONE == "None"
GEO_HAPI_TIME_CACHING_CONTINUOUS == "Continuous"
GEO_HAPI_TIME_CACHING_RANGE == "Range"
TimeCaching == {GEO_HAPI_TIME_CACHING_NONE, GEO_HAPI_TIME_CACHING_CONTINUOUS,
                GEO_HAPI_TIME_CACHING_RANGE}
\* a VtValue that holds no GEO_HAPITimeCaching
EmptyToken == "Empty"

----------------------------------------------------------------------------
(* CanFieldChangeAffectFileFormatArguments *)

\* a variant that short-circuits only under the mode None
CanFieldChange_OnlyUnderNone(field, oldValue, newValue, dependencyContextData) ==
    IF /\ field \in {theTimeCacheStartToken, theTimeCacheEndToken,
                     theTimeCacheIntervalToken}
       /\ dependencyContextData = GEO_HAPI_TIME_CACHING_NONE
    THEN FALSE
    ELSE VtNotEqual(oldValue, newValue)

CanFieldChangeAffectFileFormatArguments(field, oldValue, newValue, dependencyContextData) ==
    IF /\ field \in {theTimeCacheStartToken, theTimeCacheEndToken,
                     theTimeCacheIntervalToken}
       /\ dependencyContextData \in TimeCaching
       /\ dependencyContextData # GEO_HAPI_TIME_CACHING_RANGE
    THEN FALSE
    ELSE VtNotEqual(oldValue, newValue)

----------------------------------------------------------------------------
(* addNumericNodeParmToFormatArgs *)

GEO_HDA_PARM_NUMERIC_PREFIX == "numeric_"
GEO_HDA_PARM_STRING_PREFIX == "string_"
GEO_HDA_PARM_SEPARATOR == " "

\* the types VtValue::CanCast<T>() accepts, per target type T
CanCast(v, target) ==
    CASE target = "double" -> v.t \in {"double", "float", "int", "bool"}
      [] target = "GfVec2d" -> v.t \in {"GfVec2d", "GfVec2f"}
      [] target = "GfVec3d" -> v.t \in {"GfVec3d", "GfVec3f"}
      [] target = "GfVec4d" -> v.t \in {"GfVec4d", "GfVec4f"}
      [] target = "VtDoubleArray" -> v.t \in {"VtDoubleArray", "VtFloatArray"}
      [] target = "VtInt64Array" -> v.t \in {"VtInt64Array"}
      [] OTHER -> FALSE

\* UT_WorkBuffer::format("{0}", x) of one number
Format(x) == ToString(x)

\* outcome of reading data[0] of an empty array: the process dies, or a stale
\* value 0..MaxGarbage is read
Segfault == -1
UBOutcomes == {Segfault} \cup (0 .. MaxGarbage)

\* the loop "for (int i = 1; i < count; i++) valBuf.appendFormat(...)"
RECURSIVE AppendElements(_, _, _, _)
AppendElements(data, i, count, valBuf) ==
    IF i < count
    THEN AppendElements(data, i + 1, count,
                        valBuf \o GEO_HDA_PARM_SEPARATOR \o Format(data[i + 1]))
    ELSE valBuf

\* the indices of data the lambda reads: 0, then 1 .. count-1
ElementsRead(count) == <<0>> \o [i \in 1 .. (IF count > 1 THEN count - 1 ELSE 0) |-> i]

\* the lambda addToArgs(data, count); data is 0-based in the code, 1-based here;
\* outcome is what the read of data[0] produces when data has no element
addToArgs(parmName, data, count, outcome) ==
    IF Len(data) = 0 /\ outcome = Segfault
    THEN [crashed |-> TRUE, w |-> <<>>]
    ELSE LET first == IF Len(data) = 0 THEN outcome ELSE data[1]
         IN  [crashed |-> FALSE,
              w |-> << [src |-> "numeric", name |-> parmName,
                        key |-> GEO_HDA_PARM_NUMERIC_PREFIX \o parmName,
                        val |-> AppendElements(data, 1, count, Format(first)),
                        reads |-> ElementsRead(count)] >>]

NoWrite == [crashed |-> FALSE, w |-> <<>>]

addNumericNodeParmToFormatArgs(parmName, parmData, outcome) ==
    IF CanCast(parmData, "double") THEN addToArgs(parmName, parmData.n, 1, outcome)
    ELSE IF CanCast(parmData, "GfVec2d") THEN addToArgs(parmName, parmData.n, 2, outcome)
    ELSE IF CanCast(parmData, "GfVec3d") THEN addToArgs(parmName, parmData.n, 3, outcome)
    ELSE IF CanCast(parmData, "GfVec4d") THEN addToArgs(parmName, parmData.n, 4, outcome)
    ELSE IF CanCast(parmData, "VtDoubleArray")
         THEN addToArgs(parmName, parmData.n, Len(parmData.n), outcome)
    ELSE IF CanCast(parmData, "VtInt64Array")
         THEN addToArgs(parmName, parmData.n, Len(parmData.n), outcome)
    ELSE NoWrite   \* TF_WARN only

----------------------------------------------------------------------------
(* ComposeFieldsForFileFormatArguments *)

\* the names a dictionary may hold, in the iteration order of VtDictionary
\* (a std::map: ascending keys)
DictKeys == <<"assetname", "numeric_p", "p", "q", "timecachemethod", "timecachestart">>

\* what the read of data[0] produces for a parameter; only an array without
\* elements consults it
OutcomeFor(outcomes, parmName) ==
    IF parmName \in DOMAIN outcomes THEN outcomes[parmName] ELSE Segfault

ControlWrite(what, value) ==
    [src |-> what, name |-> what, key |-> what, val |-> value, reads |-> <<>>]

\* the loop over HDAParms, from the i-th key on
RECURSIVE ParmLoop(_, _, _, _)
ParmLoop(paramDict, i, outcomes, acc) ==
    IF i > Len(DictKeys) THEN [crashed |-> FALSE, w |-> acc]
    ELSE LET parmName == DictKeys[i] IN
         IF parmName \notin DOMAIN paramDict
         THEN ParmLoop(paramDict, i + 1, outcomes, acc)
         ELSE LET data == paramDict[parmName] IN
              IF IsHolding(data, "string")
              THEN ParmLoop(paramDict, i + 1, outcomes,
                     Append(acc, [src |-> "string", name |-> parmName,
                                  key |-> GEO_HDA_PARM_STRING_PREFIX \o parmName,
                                  val |-> data.s, reads |-> <<>>]))
              ELSE LET r == addNumericNodeParmToFormatArgs(parmName, data,
                                                           OutcomeFor(outcomes, parmName))
                   IN  IF r.crashed THEN [crashed |-> TRUE, w |-> acc]
                       ELSE ParmLoop(paramDict, i + 1, outcomes, acc \o r.w)

\* a variant of the loop over HDAOptions that copies every entry, whatever it holds
RECURSIVE OptionLoop_CopiesAll(_, _, _)
OptionLoop_CopiesAll(optDict, i, acc) ==
    IF i > Len(DictKeys) THEN acc
    ELSE LET optName == DictKeys[i] IN
         IF optName \in DOMAIN optDict
         THEN OptionLoop_CopiesAll(optDict, i + 1,
                Append(acc, [src |-> "option", name |-> optName, key |-> optName,
                             val |-> optDict[optName].s, reads |-> <<>>]))
         ELSE OptionLoop_CopiesAll(optDict, i + 1, acc)

\* the loop over HDAOptions
RECURSIVE OptionLoop(_, _, _)
OptionLoop(optDict, i, acc) ==
    IF i > Len(DictKeys) THEN acc
    ELSE LET optName == DictKeys[i] IN
         IF optName \in DOMAIN optDict /\ IsHolding(optDict[optName], "string")
         THEN OptionLoop(optDict, i + 1,
                Append(acc, [src |-> "option", name |-> optName, key |-> optName,
                             val |-> optDict[optName].s, reads |-> <<>>]))
         ELSE OptionLoop(optDict, i + 1, acc)

\* PcpDynamicFileFormatContext::ComposeValue(field, &v) && v.IsHolding<ty>()
ComposesAs(context, field, ty) ==
    context[field].t # "absent" /\ IsHolding(context[field], ty)

\* TfStringify(float)
TfStringify(v) == ToString(v.n[1])

\* a variant that substitutes "0" for a field that is absent or no float
RangeWrite_WithDefault(context, field, key) ==
    IF ComposesAs(context, field, "float")
    THEN <<ControlWrite(key, TfStringify(context[field]))>>
    ELSE <<ControlWrite(key, "0")>>

RangeWrite(context, field, key) ==
    IF ComposesAs(context, field, "float")
    THEN <<ControlWrite(key, TfStringify(context[field]))>>
    ELSE <<>>

\* a variant that emits timecachemethod = "none" for a mode field that is
\* absent or no string
TimeCacheWrites_DefaultMethod(context) ==
    IF ComposesAs(context, theTimeCacheModeToken, "string")
    THEN LET mode == context[theTimeCacheModeToken].s IN
         (IF mode = "range"
          THEN RangeWrite(context, theTimeCacheStartToken, "timecachestart")
               \o RangeWrite(context, theTimeCacheEndToken, "timecacheend")
               \o RangeWrite(context, theTimeCacheIntervalToken, "timecacheinterval")
          ELSE <<>>)
         \o <<ControlWrite("timecachemethod", mode)>>
    ELSE <<ControlWrite("timecachemethod", "none")>>

TimeCacheWrites(context) ==
    IF ComposesAs(context, theTimeCacheModeToken, "string")
    THEN LET mode == context[theTimeCacheModeToken].s IN
         (IF mode # "none" /\ mode # "continuous" /\ mode = "range"
          THEN RangeWrite(context, theTimeCacheStartToken, "timecachestart")
               \o RangeWrite(context, theTimeCacheEndToken, "timecacheend")
               \o RangeWrite(context, theTimeCacheIntervalToken, "timecacheinterval")
          ELSE <<>>)
         \o <<ControlWrite("timecachemethod", mode)>>
    ELSE <<>>

\* a variant that takes every string but "none" and "continuous" for "range"
cacheContext_RangeByDefault(context) ==
    IF ComposesAs(context, theTimeCacheModeToken, "string")
    THEN LET mode == context[theTimeCacheModeToken].s IN
         IF mode = "none" THEN GEO_HAPI_TIME_CACHING_NONE
         ELSE IF mode = "continuous" THEN GEO_HAPI_TIME_CACHING_CONTINUOUS
         ELSE GEO_HAPI_TIME_CACHING_RANGE
    ELSE GEO_HAPI_TIME_CACHING_NONE

cacheContext(context) ==
    IF ComposesAs(context, theTimeCacheModeToken, "string")
    THEN LET mode == context[theTimeCacheModeToken].s IN
         IF mode = "none" THEN GEO_HAPI_TIME_CACHING_NONE
         ELSE IF mode = "continuous" THEN GEO_HAPI_TIME_CACHING_CONTINUOUS
         ELSE IF mode = "range" THEN GEO_HAPI_TIME_CACHING_RANGE
         ELSE GEO_HAPI_TIME_CACHING_NONE
    ELSE GEO_HAPI_TIME_CACHING_NONE

\* everything after the HDAParms loop
TailWrites(context) ==
    (IF ComposesAs(context, theOptionDictToken, "VtDictionary")
     THEN OptionLoop(context[theOptionDictToken].d, 1, <<>>) ELSE <<>>)
    \o (IF ComposesAs(context, theAssetNameToken, "string")
        THEN <<ControlWrite("assetname", context[theAssetNameToken].s)>> ELSE <<>>)
    \o TimeCacheWrites(context)
    \o (IF ComposesAs(context, theHAPISessionToken, "bool")
        THEN <<ControlWrite("keepengineopen",
                 IF context[theHAPISessionToken].n[1] = 1 THEN "1" ELSE "0")>>
        ELSE <<>>)

\* (*args)[key] = val
SetArg(a, key, val) == [k \in DOMAIN a \cup {key} |-> IF k = key THEN val ELSE a[k]]

RECURSIVE ApplyWrites(_, _)
ApplyWrites(a, ws) ==
    IF ws = <<>> THEN a
    ELSE ApplyWrites(SetArg(a, Head(ws).key, Head(ws).val), Tail(ws))

\* the whole function: the writes it makes, whether it returns, and the token;
\* a composition that does not return leaves *dependencyContextData as it was
ComposeFieldsForFileFormatArguments(context, argsIn, outcomes) ==
    LET parms == IF ComposesAs(context, theParamDictToken, "VtDictionary")
                 THEN ParmLoop(context[theParamDictToken].d, 1, outcomes, <<>>)
                 ELSE NoWrite
        ws == IF parms.crashed THEN parms.w ELSE parms.w \o TailWrites(context)
    IN  [status |-> IF parms.crashed THEN "crashed" ELSE "done",
         writes |-> ws,
         args |-> ApplyWrites(argsIn, ws),
         token |-> IF parms.crashed THEN EmptyToken ELSE cacheContext(context)]

----------------------------------------------------------------------------
(* The metadata a context may compose *)

ParmNames == {"p", "q"}

\* every tuple over {5, 6} of at most MaxArrayLen elements
Tuples == UNION {[1 .. len -> {5, 6}] : len \in 0 .. MaxArrayLen}

\* the values an entry of HDAParms takes
ParmValues ==
    {Str("s"), Dbl(4), Num("int", <<2>>), Bool(TRUE), Tok("t"),
     Num("GfVec2d", <<1, 2>>), Num("GfVec2f", <<2, 1>>), Num("GfVec3d", <<1, 2, 3>>),
     Num("GfVec4d", <<4, 3, 2, 1>>), Num("VtFloatArray", <<7>>), Num("VtIntArray", <<8>>)}
    \cup {Num("VtDoubleArray", tp) : tp \in Tuples}
    \cup {Num("VtInt64Array", tp) : tp \in Tuples}

\* every dictionary over ParmNames with values in ParmValues
ParmDicts == UNION {[names -> ParmValues] : names \in SUBSET ParmNames}

\* the parameters of a dictionary whose value is an array without elements
EmptyArrayParms(v) ==
    IF IsHolding(v, "VtDictionary")
    THEN {nm \in DOMAIN v.d \cap ParmNames :
            /\ ~IsHolding(v.d[nm], "string")
            /\ ~CanCast(v.d[nm], "double")
            /\ (CanCast(v.d[nm], "VtDoubleArray") \/ CanCast(v.d[nm], "VtInt64Array"))
            /\ Len(v.d[nm].n) = 0}
    ELSE {}

NoContext == [f \in Fields |-> Absent]
NoArgs == [k \in {} |-> ""]

TypeOK ==
    /\ DOMAIN ctx = Fields
    /\ status \in {"idle", "done", "crashed"}
    /\ token \in TimeCaching \cup {EmptyToken}
    /\ \A k \in DOMAIN args : args[k] \in STRING

----------------------------------------------------------------------------
(* Composition of a context, and of a changed context *)

\* the caller composes context into a copy of argsIn; the read past an empty
\* array, where it happens, has any of its outcomes
Composed(context, argsIn) ==
    \E outcomes \in [EmptyArrayParms(context[theParamDictToken]) -> UBOutcomes] :
        LET r == ComposeFieldsForFileFormatArguments(context, argsIn, outcomes)
        IN  /\ args' = r.args
            /\ token' = r.token
            /\ status' = r.status
            /\ writes' = r.writes

\* the fields of the context are composed into the arguments
ComposeFields ==
    /\ status = "idle"
    /\ Composed(ctx, inArgs)
    /\ UNCHANGED <<ctx, inArgs>>

\* the change of field f to v is put to CanFieldChangeAffectFileFormatArguments
\* with the token of the last composition, and the changed context is composed
FieldChange(f, v) ==
    /\ status = "done"
    /\ lastField = ""
    /\ ctx' = [ctx EXCEPT ![f] = v]
    /\ Composed(ctx', inArgs)
    /\ lastField' = f
    /\ lastDecision' = CanFieldChangeAffectFileFormatArguments(f, ctx[f], v, token)
    /\ prevArgs' = args
    /\ UNCHANGED inArgs

----------------------------------------------------------------------------
(* Read *)

Layers == {"layer1", "layer2"}
ResolvedPaths == {"a.hda", "b.otl"}
NoData == 0

\* SdfLayer::GetFileFormatArguments
GetFileFormatArguments(layer) ==
    IF layer = "layer1" THEN NoArgs ELSE ("timecachemethod" :> "range")

\* GEO_HDAFileData::New(args): a fresh data object holding the cook arguments
New(cookArgs) == [myCookArgs |-> cookArgs, path |-> "", opened |-> FALSE, layer |-> ""]

\* GEO_HDAFileData::Open(filePath) returns a bool; either result is possible,
\* cooks tells which, and the object remembers it
Open(data, filePath, cooks) ==
    [ok |-> cooks, data |-> [data EXCEPT !.path = filePath, !.opened = cooks]]

\* SdfFileFormat::_SetLayerData(layer, data)
SetLayerData(ld, layer, id) == [ld EXCEPT ![layer] = id]

\* a variant of Read that installs the data before it looks at Open's result
ReadOutcome_InstallsFirst(ld, layer, id, opened) ==
    [layerData |-> SetLayerData(ld, layer, id), result |-> opened.ok]

\* what Read leaves behind: the layer data and the value it returns
ReadOutcome(ld, layer, id, opened) ==
    IF ~opened.ok
    THEN [layerData |-> ld, result |-> FALSE]
    ELSE [layerData |-> SetLayerData(ld, layer, id), result |-> TRUE]

\* GEO_HDAFileFormat::Read(layer, resolvedPath, metadataOnly)
Read(layer, resolvedPath, cooks) ==
    /\ Len(objects) < MaxObjects
    /\ LET id == Len(objects) + 1
           data == [New(GetFileFormatArguments(layer)) EXCEPT !.layer = layer]
           opened == Open(data, resolvedPath, cooks)
           out == ReadOutcome(layerData, layer, id, opened)
       IN  /\ objects' = Append(objects, opened.data)
           /\ layerData' = out.layerData
           /\ readResult' = out.result
           /\ readLayer' = layer
           /\ readBefore' = layerData

----------------------------------------------------------------------------
(* CanRead *)

\* a path is a tuple of characters
hda == <<"h", "d", "a">>
otl == <<"o", "t", "l">>
hdanc == <<"h", "d", "a", "n", "c">>
otlnc == <<"o", "t", "l", "n", "c">>
hdalc == <<"h", "d", "a", "l", "c">>
otllc == <<"o", "t", "l", "l", "c">>

theExtensions == {hda, otl, hdanc, otlnc, hdalc, otllc}

\* index of the last occurrence of character c in str, 0 when there is none
RECURSIVE rfind(_, _, _)
rfind(str, c, i) ==
    IF i = 0 THEN 0 ELSE IF str[i] = c THEN i ELSE rfind(str, c, i - 1)

\* TfGetBaseName
RECURSIVE TfGetBaseName(_)
TfGetBaseName(fileName) ==
    IF fileName = <<>> THEN fileName
    ELSE IF fileName[Len(fileName)] = "/"
         THEN TfGetBaseName(SubSeq(fileName, 1, Len(fileName) - 1))
    ELSE LET i == rfind(fileName, "/", Len(fileName))
         IN  IF i = 0 THEN fileName ELSE SubSeq(fileName, i + 1, Len(fileName))

\* TfStringGetBeforeSuffix and TfStringGetSuffix, with the delimiter '.'
TfStringGetBeforeSuffix(name) ==
    LET i == rfind(name, ".", Len(name))
    IN  IF i = 0 THEN name ELSE SubSeq(name, 1, i - 1)

TfStringGetSuffix(name) ==
    LET i == rfind(name, ".", Len(name))
    IN  IF i = 0 THEN <<>> ELSE SubSeq(name, i + 1, Len(name))

\* TfGetExtension
TfGetExtension(filePath) ==
    IF filePath = <<>> THEN <<>>
    ELSE LET fileName == TfGetBaseName(filePath)
         IN  IF TfStringGetBeforeSuffix(fileName) = <<>> THEN <<>>
             ELSE TfStringGetSuffix(fileName)

\* a variant of contains that ignores case
LowerCase(str) ==
    [i \in 1 .. Len(str) |->
        CASE str[i] = "H" -> "h" [] str[i] = "D" -> "d" [] str[i] = "A" -> "a"
          [] str[i] = "O" -> "o" [] str[i] = "T" -> "t" [] str[i] = "L" -> "l"
          [] OTHER -> str[i]]
contains_IgnoringCase(set, str) == \E e \in set : e = LowerCase(str)

\* UT_ArrayStringSet::contains: an exact, case-sensitive match
contains(set, str) == \E e \in set : e = str

\* GEO_HDAFileFormat::CanRead
CanRead(filePath) == contains(theExtensions, TfGetExtension(filePath))

\* the paths put to CanRead: directory, stem, and what follows the stem
PathDirs == {<<>>, <<"d", "/">>, <<"/", "d", ".", "h", "d", "a", "/">>}
PathStems == {<<>>, <<"a">>, <<"a", ".", "b">>, <<"a", ".", "h", "d", "a">>}
PathTails ==
    {<<>>, <<".">>, <<"/">>, <<".", "u", "s", "d">>, <<".", "H", "D", "A">>,
     <<".", "H", "d", "a">>, <<".", "h", "d">>, <<".", "h", "d", "a", "x">>,
     <<".", "h", "d", "a", "/">>, <<".", "h", "d", "a", ".", "u", "s", "d">>,
     <<".", "o", "t", "l", " ">>, <<".", "O", "T", "L">>}
    \cup {<<".">> \o e : e \in theExtensions}
Paths == {dir \o stem \o tail : dir \in PathDirs, stem \in PathStems, tail \in PathTails}

CanReadCall(p) ==
    /\ path = <<>>
    /\ path' = p
    /\ canRead' = CanRead(p)

----------------------------------------------------------------------------
(* One call of CanFieldChangeAffectFileFormatArguments *)

DecideFields == Fields \cup {"documentation"}
DecideValues == {Absent, Flt(1), Flt(2), Dbl(1), Str("range"), Str("none"),
                 Dict(EmptyDict), Dict("p" :> Dbl(4))}

Decide(f, old, new, tok) ==
    /\ dField = ""
    /\ dField' = f
    /\ dOld' = old
    /\ dNew' = new
    /\ dToken' = tok
    /\ dResult' = CanFieldChangeAffectFileFormatArguments(f, old, new, tok)

----------------------------------------------------------------------------
(* Specifications *)

\* arguments the caller split off the asset path before composing
InArgsSet == {NoArgs, ("timecachestart" :> "7")}

\* the state before any composition, for a context out of contexts
InitCompose(contexts, argsIns) ==
    /\ ctx \in contexts
    /\ inArgs \in argsIns
    /\ args = inArgs
    /\ token = EmptyToken
    /\ status = "idle"
    /\ writes = <<>>

InitChange ==
    /\ lastField = ""
    /\ lastDecision = TRUE
    /\ prevArgs = NoArgs

InitDecision ==
    /\ dField = ""
    /\ dOld = Absent
    /\ dNew = Absent
    /\ dToken = EmptyToken
    /\ dResult = FALSE

InitRead ==
    /\ layerData = [l \in Layers |-> NoData]
    /\ objects = <<>>
    /\ readLayer = ""
    /\ readResult = FALSE
    /\ readBefore = [l \in Layers |-> NoData]

InitCanRead ==
    /\ path = <<>>
    /\ canRead = FALSE

InitRest == InitChange /\ InitDecision /\ InitRead /\ InitCanRead

\* every context that takes each field's value out of values[field]
Contexts(values) ==
    [HDAParms : values[theParamDictToken],
     HDAOptions : values[theOptionDictToken],
     HDAAssetName : values[theAssetNameToken],
     HDATimeCacheMode : values[theTimeCacheModeToken],
     HDATimeCacheStart : values[theTimeCacheStartToken],
     HDATimeCacheEnd : values[theTimeCacheEndToken],
     HDATimeCacheInterval : values[theTimeCacheIntervalToken],
     HDAKeepEngineOpen : values[theHAPISessionToken]]

\* the values each field takes when the composed arguments are examined
TimeValues == {Absent, Flt(1), Dbl(2)}
ComposeValues ==
    [f \in Fields |->
        CASE f = theParamDictToken ->
               {Absent, Dict("p" :> Dbl(4)), Dict("p" :> Num("VtDoubleArray", <<>>))}
          [] f = theOptionDictToken ->
               {Absent, Dbl(1), Dict("timecachestart" :> Str("9")),
                Dict(("timecachemethod" :> Str("x")) @@ ("p" :> Dbl(1))),
                Dict(("assetname" :> Str("z")) @@ ("timecachemethod" :> Dbl(1))),
                Dict(("numeric_p" :> Str("v")) @@ ("q" :> Str("w")))}
          [] f = theAssetNameToken -> {Absent, Str("a"), Tok("a")}
          [] f = theTimeCacheModeToken ->
               {Absent, Str("none"), Str("continuous"), Str("range"), Str("Range"),
                Tok("range")}
          [] f = theHAPISessionToken -> {Absent, Bool(TRUE), Bool(FALSE)}
          [] OTHER -> TimeValues]

Init == InitCompose(Contexts(ComposeValues), InArgsSet) /\ InitRest

Next ==
    /\ ComposeFields
    /\ UNCHANGED <<changeVars, decideVars, readVars, canReadVars>>

Spec == Init /\ [][Next]_vars

\* the values each field takes when field changes are examined
ChangeValues ==
    [f \in Fields |->
        CASE f = theParamDictToken ->
               {Absent, Dict("p" :> Dbl(4)), Dict("p" :> Num("VtInt64Array", <<>>))}
          [] f = theOptionDictToken -> {Absent, Dict("timecachestart" :> Str("9"))}
          [] f = theAssetNameToken -> {Absent, Str("a")}
          [] f = theTimeCacheModeToken ->
               {Absent, Str("none"), Str("continuous"), Str("range")}
          [] f = theHAPISessionToken -> {Absent, Bool(TRUE)}
          [] f = theTimeCacheStartToken -> {Absent, Flt(1), Flt(2)}
          [] OTHER -> {Absent, Flt(1)}]

InitChanges == InitCompose(Contexts(ChangeValues), {NoArgs}) /\ InitRest

NextChange ==
    \/ /\ ComposeFields
       /\ UNCHANGED <<changeVars, decideVars, readVars, canReadVars>>
    \/ /\ \E f \in Fields : \E v \in ChangeValues[f] : FieldChange(f, v)
       /\ UNCHANGED <<decideVars, readVars, canReadVars>>

SpecChange == InitChanges /\ [][NextChange]_vars

\* the parameter dictionary varies, next to a few options and modes
ParmsValues ==
    [f \in Fields |->
        CASE f = theParamDictToken -> {Absent, Dbl(1)} \cup {Dict(d) : d \in ParmDicts}
          [] f = theOptionDictToken -> {Absent, Dict("numeric_p" :> Str("v"))}
          [] f = theTimeCacheModeToken -> {Absent, Str("range")}
          [] OTHER -> {Absent}]

InitParms == InitCompose(Contexts(ParmsValues), {NoArgs}) /\ InitRest

SpecParms == InitParms /\ [][Next]_vars

NextDecide ==
    /\ \E f \in DecideFields : \E old \in DecideValues : \E new \in DecideValues :
         \E tok \in TimeCaching \cup {EmptyToken} : Decide(f, old, new, tok)
    /\ UNCHANGED <<composeVars, changeVars, readVars, canReadVars>>

InitOther == InitCompose({NoContext}, {NoArgs}) /\ InitRest

SpecDecide == InitOther /\ [][NextDecide]_vars

NextRead ==
    /\ \E layer \in Layers : \E p \in ResolvedPaths : \E cooks \in BOOLEAN :
         Read(layer, p, cooks)
    /\ UNCHANGED <<composeVars, changeVars, decideVars, canReadVars>>

SpecRead == InitOther /\ [][NextRead]_vars

NextCanRead ==
    /\ \E p \in Paths : CanReadCall(p)
    /\ UNCHANGED <<composeVars, changeVars, decideVars, readVars>>

SpecCanRead == InitOther /\ [][NextCanRead]_vars

----------------------------------------------------------------------------
(* Claims about one call of CanFieldChangeAffectFileFormatArguments *)

C1_RangeFields == {"HDATimeCacheStart", "HDATimeCacheEnd", "HDATimeCacheInterval"}

\* C1: for every field, every pair of values and every token in {None,
\* Continuous, Range}, the answer is false for a range field under a token
\* other than Range (even when the values differ), and otherwise is true
\* exactly when the old value differs from the new one.
C1_DecisionMatchesReference ==
    (dField # "" /\ dToken \in {"None", "Continuous", "Range"}) =>
        dResult = (IF dField \in C1_RangeFields /\ dToken # "Range"
                   THEN FALSE
                   ELSE dOld # dNew)

C1_Witness ==
    /\ dField = "HDATimeCacheInterval"
    /\ dToken = "Continuous"
    /\ dOld = Flt(1)
    /\ dNew = Flt(2)
    /\ dResult = FALSE

----------------------------------------------------------------------------
(* Claims about the composed arguments *)

C_Mode == ctx["HDATimeCacheMode"]
C_OptionString(k) ==
    /\ ctx["HDAOptions"].t = "VtDictionary"
    /\ k \in DOMAIN ctx["HDAOptions"].d
    /\ ctx["HDAOptions"].d[k].t = "string"

\* what the key k holds when no control field writes it: the string option of
\* that name, else the incoming argument of that name, else nothing
C_Inherited(k) ==
    IF C_OptionString(k) THEN <<ctx["HDAOptions"].d[k].s>>
    ELSE IF k \in DOMAIN inArgs THEN <<inArgs[k]>>
    ELSE <<>>

C_Holds(k) == IF k \in DOMAIN args THEN <<args[k]>> ELSE <<>>

\* C3 as stated: the composed arguments always contain timecachemethod, valued
\* with the mode string, which is "none" when the mode field is absent or not
\* a string.
C3_AlwaysEmitsMethod ==
    status = "done" =>
        /\ "timecachemethod" \in DOMAIN args
        /\ args["timecachemethod"] = (IF C_Mode.t = "string" THEN C_Mode.s ELSE "none")

\* C3 as amended: a string-typed mode field is emitted verbatim as
\* timecachemethod; an absent or mistyped mode field emits nothing, so the key
\* then holds only what an option of that name or the incoming arguments put
\* there.
C3_MethodEmittedOnlyForStringMode ==
    status = "done" =>
        IF C_Mode.t = "string"
        THEN C_Holds("timecachemethod") = <<C_Mode.s>>
        ELSE /\ C_Holds("timecachemethod") = C_Inherited("timecachemethod")
             /\ \A i \in 1 .. Len(writes) : writes[i].src # "timecachemethod"

C3_Witness ==
    /\ status = "done"
    /\ C_Mode = Tok("range")
    /\ ctx["HDAOptions"] = Absent
    /\ ctx["HDAAssetName"] = Str("a")
    /\ "timecachemethod" \notin DOMAIN args
    /\ "assetname" \in DOMAIN args

C4_RangeFieldKeys ==
    {<<"HDATimeCacheStart", "timecachestart">>, <<"HDATimeCacheEnd", "timecacheend">>,
     <<"HDATimeCacheInterval", "timecacheinterval">>}

\* C4 as stated: under mode "range", an absent or non-float start / end /
\* interval field leaves the composed arguments without the matching key,
\* whatever the parameter and option dictionaries contain (read here for a
\* composition into arguments that were empty).
C4_NoKeyWhateverTheDictionaries ==
    (status = "done" /\ C_Mode = Str("range") /\ DOMAIN inArgs = {}) =>
        \A fk \in C4_RangeFieldKeys :
            ctx[fk[1]].t # "float" => fk[2] \notin DOMAIN args

\* C4 as amended: under mode "range", an absent or non-float start / end /
\* interval field writes no key and substitutes no default; the key is in the
\* composed arguments only when a string option of that name or the incoming
\* arguments hold it, and then with that value.
C4_NoKeyUnlessInherited ==
    (status = "done" /\ C_Mode = Str("range")) =>
        \A fk \in C4_RangeFieldKeys :
            ctx[fk[1]].t # "float" =>
                /\ C_Holds(fk[2]) = C_Inherited(fk[2])
                /\ \A i \in 1 .. Len(writes) : writes[i].src # fk[2]

C4_Witness ==
    /\ status = "done"
    /\ C_Mode = Str("range")
    /\ ctx["HDATimeCacheStart"] = Absent
    /\ ctx["HDATimeCacheEnd"] = Flt(1)
    /\ ctx["HDATimeCacheInterval"] = Dbl(2)
    /\ ctx["HDAParms"] = Dict("p" :> Dbl(4))
    /\ DOMAIN args = {"numeric_p", "timecacheend", "timecachemethod"}

C5_Options == IF ctx["HDAOptions"].t = "VtDictionary" THEN ctx["HDAOptions"].d ELSE EmptyDict

\* C5 as stated: every string entry (k, v) of HDAOptions has the composed
\* arguments map k to v; a non-string entry contributes nothing.
C5_EveryStringOptionIsFinal ==
    status = "done" =>
        \A k \in DOMAIN C5_Options :
            IF C5_Options[k].t = "string"
            THEN C_Holds(k) = <<C5_Options[k].s>>
            ELSE \A i \in 1 .. Len(writes) :
                    ~(writes[i].src = "option" /\ writes[i].name = k)

C5_ControlKeys == {"assetname", "timecachemethod", "timecachestart", "timecacheend",
                   "timecacheinterval", "keepengineopen"}

\* C5 as amended: every string entry (k, v) of HDAOptions is written verbatim
\* under the unprefixed key k, and the composed arguments map k to v unless k
\* is a control key that a field composed later writes; a non-string entry
\* contributes nothing.
C5_StringOptionUnlessControlKey ==
    status = "done" =>
        \A k \in DOMAIN C5_Options :
            IF C5_Options[k].t = "string"
            THEN \E i \in 1 .. Len(writes) :
                    /\ writes[i].src = "option"
                    /\ writes[i].key = k
                    /\ writes[i].val = C5_Options[k].s
                    /\ \/ C_Holds(k) = <<C5_Options[k].s>>
                       \/ \E j \in (i + 1) .. Len(writes) :
                             writes[j].key = k /\ writes[j].src = k
                                               /\ k \in C5_ControlKeys
            ELSE \A i \in 1 .. Len(writes) :
                    ~(writes[i].src = "option" /\ writes[i].name = k)

C5_Witness ==
    /\ status = "done"
    /\ ctx["HDAOptions"] = Dict(("numeric_p" :> Str("v")) @@ ("q" :> Str("w")))
    /\ ctx["HDAParms"] = Dict("p" :> Dbl(4))
    /\ args["numeric_p"] = "v"
    /\ args["q"] = "w"

\* C8: the dependency token is Range exactly when the mode field is the string
\* "range", Continuous exactly when it is the string "continuous", and None
\* otherwise, whatever the other fields hold.
C8_TokenIsFunctionOfMode ==
    status = "done" =>
        token = (IF C_Mode = Str("range") THEN "Range"
                 ELSE IF C_Mode = Str("continuous") THEN "Continuous"
                 ELSE "None")

C8_Witness ==
    /\ status = "done"
    /\ C_Mode = Str("continuous")
    /\ token = "Continuous"
    /\ ctx["HDATimeCacheStart"] = Flt(1)
    /\ ctx["HDAKeepEngineOpen"] = Bool(TRUE)
    /\ ctx["HDAOptions"] # Absent

----------------------------------------------------------------------------
(* Claims about the parameter dictionary *)

C6_Parms == IF ctx["HDAParms"].t = "VtDictionary" THEN ctx["HDAParms"].d ELSE EmptyDict
C6_Coercions == <<"double", "GfVec2d", "GfVec3d", "GfVec4d", "VtDoubleArray",
                  "VtInt64Array">>
C6_Coercible(v) == \E i \in 1 .. Len(C6_Coercions) : CanCast(v, C6_Coercions[i])
C6_WritesOf(name) ==
    {i \in 1 .. Len(writes) : writes[i].name = name /\ writes[i].src \in {"string", "numeric"}}

C6_EntryEmitsAsStated(name) ==
    LET v == C6_Parms[name]
        ws == C6_WritesOf(name)
    IN  IF v.t = "string"
        THEN /\ Cardinality(ws) = 1
             /\ \A i \in ws : writes[i].key = "string_" \o name /\ writes[i].val = v.s
        ELSE IF C6_Coercible(v)
        THEN /\ Cardinality(ws) = 1
             /\ \A i \in ws : writes[i].key = "numeric_" \o name
        ELSE ws = {} /\ status = "done"

\* C6: every entry of HDAParms emits zero or one argument: a string emits the
\* string-prefixed name with the value; any other value that one of the
\* coercions double, 2-, 3-, 4-vector, double array, integer array accepts
\* emits the numeric-prefixed name; a value none accepts emits nothing and the
\* remaining entries and fields are still composed.
C6_EveryEntryEmitsAsStated ==
    status # "idle" => \A name \in DOMAIN C6_Parms : C6_EntryEmitsAsStated(name)

\* the same for contexts whose parameters hold no array without elements
C6_HoldsWithoutEmptyArrays ==
    (status # "idle" /\ EmptyArrayParms(ctx["HDAParms"]) = {}) =>
        \A name \in DOMAIN C6_Parms : C6_EntryEmitsAsStated(name)

RECURSIVE C10_Join(_)
C10_Join(elements) ==
    IF elements = <<>> THEN ""
    ELSE IF Len(elements) = 1 THEN ToString(elements[1])
    ELSE ToString(Head(elements)) \o " " \o C10_Join(Tail(elements))

C10_EntrySerialised(name) ==
    LET v == C6_Parms[name]
    IN  \E i \in 1 .. Len(writes) :
            /\ writes[i].src = "numeric"
            /\ writes[i].name = name
            /\ writes[i].val = C10_Join(v.n)
            /\ \A r \in 1 .. Len(writes[i].reads) : writes[i].reads[r] < Len(v.n)

\* C10: the value emitted for a numeric parameter of n elements is exactly
\* those n elements, in order, joined by the separator; an empty array yields
\* a value without elements, and no element outside the tuple is read.
C10_ValueIsTheElementsJoined ==
    status # "idle" =>
        \A name \in DOMAIN C6_Parms :
            (C6_Parms[name].t # "string" /\ C6_Coercible(C6_Parms[name])) =>
                C10_EntrySerialised(name)

\* the same for contexts whose parameters hold no array without elements
C10_HoldsWithoutEmptyArrays ==
    (status # "idle" /\ EmptyArrayParms(ctx["HDAParms"]) = {}) =>
        \A name \in DOMAIN C6_Parms :
            (C6_Parms[name].t # "string" /\ C6_Coercible(C6_Parms[name])) =>
                C10_EntrySerialised(name)

----------------------------------------------------------------------------
(* Claims about field changes *)

\* C2: when CanFieldChangeAffectFileFormatArguments answers false for the
\* change of one field, composing the changed context yields the arguments
\* composed before the change.
C2_NoMissedRecomposition ==
    (lastField # "" /\ ~lastDecision) => (status = "done" /\ args = prevArgs)

\* the same for contexts whose parameters hold no array without elements
C2_HoldsWithoutEmptyArrays ==
    (lastField # "" /\ ~lastDecision /\ EmptyArrayParms(ctx["HDAParms"]) = {}) =>
        (status = "done" /\ args = prevArgs)

C2_RangeFieldIgnored ==
    /\ lastField = "HDATimeCacheStart"
    /\ ~lastDecision
    /\ ctx["HDATimeCacheStart"] = Flt(2)
    /\ C_Mode = Str("continuous")
    /\ args = prevArgs

----------------------------------------------------------------------------
(* Claims about Read *)

\* the data object of the most recent Read of the layer whose Open succeeded
C7_LastOpened(layer) ==
    LET ids == {i \in 1 .. Len(objects) : objects[i].layer = layer /\ objects[i].opened}
    IN  IF ids = {} THEN 0 ELSE CHOOSE i \in ids : \A j \in ids : j <= i

\* C7: a Read whose Open fails returns false and leaves the layer data as it
\* was; a Read whose Open succeeds returns true and installs the new document;
\* so every layer holds the document of its most recent successful Read and
\* never one whose Open failed.
C7_ReadInstallsOnlyOpenedData ==
    /\ readLayer # "" =>
          LET id == Len(objects) IN
          IF objects[id].opened
          THEN readResult /\ layerData = [readBefore EXCEPT ![readLayer] = id]
          ELSE ~readResult /\ layerData = readBefore
    /\ \A layer \in {"layer1", "layer2"} :
          /\ layerData[layer] = C7_LastOpened(layer)
          /\ layerData[layer] # 0 => objects[layerData[layer]].opened

C7_Witness ==
    /\ readLayer = "layer1"
    /\ ~readResult
    /\ Len(objects) = 3
    /\ objects[1].opened /\ objects[1].layer = "layer1"
    /\ ~objects[2].opened /\ objects[2].layer = "layer2"
    /\ layerData = [layer \in {"layer1", "layer2"} |->
                       IF layer = "layer1" THEN 1 ELSE 0]

----------------------------------------------------------------------------
(* Claims about CanRead *)

\* the last component of p: what follows the last "/" once trailing "/" are
\* dropped
C9_IsLastComponent(p, base) ==
    \E from \in 1 .. Len(p) + 1 : \E to \in 0 .. Len(p) :
        /\ base = SubSeq(p, from, to)
        /\ \A i \in (to + 1) .. Len(p) : p[i] = "/"
        /\ to = 0 \/ p[to] # "/"
        /\ \A i \in from .. to : p[i] # "/"
        /\ from = 1 \/ p[from - 1] = "/"
        /\ to = 0 => from = 1

\* ext is the extension of p: the last component is a non-empty stem, a ".",
\* and ext, and ext holds no "."
C9_HasExtension(p, ext) ==
    \E base \in {SubSeq(p, from, to) : from \in 1 .. Len(p) + 1, to \in 0 .. Len(p)} :
        /\ C9_IsLastComponent(p, base)
        /\ \E dot \in 2 .. Len(base) :
              /\ base[dot] = "."
              /\ ext = SubSeq(base, dot + 1, Len(base))
              /\ \A i \in 1 .. Len(ext) : ext[i] # "."

C9_Extensions ==
    {<<"h", "d", "a">>, <<"o", "t", "l">>, <<"h", "d", "a", "n", "c">>,
     <<"o", "t", "l", "n", "c">>, <<"h", "d", "a", "l", "c">>,
     <<"o", "t", "l", "l", "c">>}

\* C9: CanRead(path) is true if and only if the extension of path is, case
\* sensitively, one of hda, otl, hdanc, otlnc, hdalc, otllc.
C9_CanReadIffKnownExtension ==
    /\ canRead <=> \E ext \in C9_Extensions : C9_HasExtension(path, ext)
    /\ path = <<"a", ".", "h", "d", "a">> => canRead
    /\ path = <<"a", ".", "o", "t", "l", "n", "c">> => canRead
    /\ path = <<"a", ".", "u", "s", "d">> => ~canRead
    /\ path = <<"a", ".", "H", "D", "A">> => ~canRead

C9_Witness ==
    /\ path = <<"d", "/", "a", ".", "o", "t", "l", "l", "c">>
    /\ canRead

====
